---- MODULE Spec2Model ----
(***************************************************************************)
(* Library management backend: the borrowing lifecycle (checkout, return), *)
(* the catalog and borrower handlers that touch the same rows, and the     *)
(* PostgreSQL store behind them.  Every Express handler is a process: each *)
(* `await` on the Prisma client is one step, so handlers of different      *)
(* requests interleave between their store calls.                          *)
(***************************************************************************)
EXTENDS Integers, Sequences, FiniteSets, TLC

\* ---------------------------------------------------------------- bounds
MaxBooks == 1          \* Book ids handed out by the SERIAL column: 1..MaxBooks
MaxBorrowers == 1      \* Borrower ids handed out: 1..MaxBorrowers
MaxBorrowings == 2     \* Borrowing ids handed out: 1..MaxBorrowings
MaxQty == 1            \* quantities a librarian enters: 0..MaxQty
MaxReqs == 2           \* requests in flight at the same time
MaxTime == 1           \* the clock runs over 0..MaxTime
DayTicks == 2          \* instants the clock tells apart within one day
MaxUsers == 1          \* User ids handed out: 1..MaxUsers
MaxMinutes == 1        \* the rate limiter's clock runs over 0..MaxMinutes

\* ------------------------------------------------------ program constants
LoanDays == 14         \* addDays(new Date(), 14)
BorrowingMax == 10     \* borrowingRateLimit: max: 10
BorrowingWindow == 1   \* borrowingRateLimit: windowMs: 1 * 60 * 1000, in minutes

BookIds == 1..MaxBooks
BorrowerIds == 1..MaxBorrowers
BorrowingIds == 1..MaxBorrowings
Reqs == 1..MaxReqs
\* The ids a client may name: those the sequence can issue and one it never does
NamedBookIds == 1..(MaxBooks + 1)
NamedBorrowerIds == 1..(MaxBorrowers + 1)
NoDate == -1           \* returnDate IS NULL; a body without dueDate
\* addDays(date, amount)
addDays(date, amount) == date + amount * DayTicks
\* The dueDate values a client may put in the body of a checkout: none, or
\* the end of the first day
NamedDueDates == {NoDate, DayTicks}

VARIABLES
    books,             \* Book table: id -> stored "quantity" column
    totalQuantity,     \* id -> the copies the library holds: the quantity a
                       \* librarian last entered through add/update (the
                       \* Book table keeps no column of its own for it)
    borrowers,         \* Borrower table: the set of ids
    borrowings,        \* Borrowing table: id -> row
    nextBookId,        \* Book.id SERIAL
    nextBorrowerId,    \* Borrower.id SERIAL
    nextBorrowingId,   \* Borrowing.id SERIAL
    now,               \* the wall clock read by new Date() / CURRENT_TIMESTAMP
    req,               \* the handler invocations: locals, position, response
    users,             \* User table: id -> row
    nextUserId,        \* User.id autoincrement
    gate,              \* the requests at the auth routes and middlewares
    limiter,           \* borrowingRateLimit's record of the client
    counted,           \* the requests the limiter counted, by the minute
                       \* (kept for the properties; the program has no such log)
    minute             \* the clock the rate limiter reads, in minutes

vars == <<books, totalQuantity, borrowers, borrowings, nextBookId,
          nextBorrowerId, nextBorrowingId, now, req,
          users, nextUserId, gate, limiter, counted, minute>>

store == <<books, totalQuantity, borrowers, borrowings, nextBookId,
           nextBorrowerId, nextBorrowingId>>

\* The accounts and what stands in front of the handlers
front == <<users, nextUserId, gate, limiter, counted, minute>>

\* The rate limiter's record and the log of what it counted
meter == <<limiter, counted>>

\* ------------------------------------------------------------- responses
\* The bodies the handlers send; "StoreError" stands for the message of an
\* error thrown by the Prisma client (res.status(400).json({error: message})).
ErrBorrowerNotFound == "Borrower not found"
ErrBookNotFound == "Book not found"
ErrBookUnavailable == "Book not available for checkout"
ErrBorrowingNotFound == "Borrowing record not found"
ErrAlreadyReturned == "Book has already been returned"
ErrStore == "StoreError"
ErrInvalid == "ZodError"
NoError == ""
\* Nothing sent yet
NoBody == [sent |-> FALSE]

\* A free slot: no request, no locals read (ids start at 1), nothing sent.
IdleReq ==
    [kind |-> "none", pc |-> "idle", bookId |-> 0, borrowerId |-> 0,
     borrowingId |-> 0, snapQty |-> 0, bodyDueDate |-> NoDate,
     dueDate |-> NoDate, query |-> "", from |-> 0, to |-> 0, clock |-> NoDate,
     rows |-> << >>, status |-> 0, error |-> NoError, body |-> NoBody]

\* res.status(s).json(...) followed by the handler's return
Respond(r, s, e) == [r EXCEPT !.pc = "done", !.status = s, !.error = e]

\* ------------------------------------------------------ users and tokens
UserIds == 1..MaxUsers
Roles == {"ADMIN", "LIBRARIAN", "USER"}
\* The usernames and the emails clients register with
Names == 1..(MaxUsers + 1)

ErrAuthRequired == "Authentication required"
ErrInvalidToken == "Invalid or malformed token"
ErrInactive == "User account is inactive or does not exist"
ErrPermissions == "Insufficient permissions"
ErrRateLimit == "Borrowing rate limit exceeded"
ErrNoData == "No data to update"
ErrUpdateFailed == "Failed to update user"
ErrUserExists == "User already exists"
ErrRegistration == "Registration failed"
ErrValidationFailed == "Validation failed"

\* What a request carries in its Authorization header: nothing, a string
\* jwt.verify refuses, or a token login signed less than 24 hours ago for the
\* user `id`, who had the role `role` then.
NoToken == [kind |-> "none", id |-> 0, role |-> ""]
BadToken == [kind |-> "invalid", id |-> 0, role |-> ""]
Tokens ==
    {NoToken, BadToken}
        \cup {[kind |-> "valid", id |-> u, role |-> c] : u \in UserIds, c \in Roles}

\* A request on its way through the middlewares of its route, or in an auth
\* handler: the route, the position, the token, req.user.role once set, the
\* parameters of the auth handlers, and the response a middleware or an auth
\* handler sent.
NoGate ==
    [route |-> "", pc |-> "out", token |-> NoToken, role |-> "",
     target |-> 0, newRole |-> "", newActive |-> "",
     username |-> 0, email |-> 0, status |-> 0, error |-> NoError]

\* res.status(s).json({error: e}) followed by return
Refuse(g, s, e) == [g EXCEPT !.pc = "refused", !.status = s, !.error = e]

\* The rate limiter has seen no request of the client
NoHits == [hits |-> 0, resetAt |-> 0]

\* No account, no request at the auth routes, the limiter fresh
InitFront ==
    /\ users = << >>
    /\ nextUserId = 1
    /\ gate = [r \in Reqs |-> NoGate]
    /\ limiter = NoHits
    /\ counted = [m \in 0..MaxMinutes |-> 0]
    /\ minute = 0

\* ------------------------------------------------------------ the tables
\* Borrowing rows of a book / borrower, and the open ones (returnDate null)
BorrowingsOfBook(k) == {b \in DOMAIN borrowings : borrowings[b].bookId = k}
BorrowingsOfBorrower(w) == {b \in DOMAIN borrowings : borrowings[b].borrowerId = w}
OpenOfBook(k) == {b \in BorrowingsOfBook(k) : borrowings[b].returnDate = NoDate}
OpenOfBorrower(w) == {b \in BorrowingsOfBorrower(w) : borrowings[b].returnDate = NoDate}

\* f without the keys in S
Without(f, S) == [x \in DOMAIN f \ S |-> f[x]]
\* f with key x bound to v
With(f, x, v) == [y \in DOMAIN f \cup {x} |-> IF y = x THEN v ELSE f[y]]

\* ------------------------------------------------------------------ init
\* After the migration has run: empty tables, sequences at 1.
Init ==
    /\ books = << >>
    /\ totalQuantity = << >>
    /\ borrowers = {}
    /\ borrowings = << >>
    /\ nextBookId = 1
    /\ nextBorrowerId = 1
    /\ nextBorrowingId = 1
    /\ now = 0
    /\ req = [r \in Reqs |-> IdleReq]
    /\ InitFront

\* ---------------------------------------------------------------- checkout
\* BorrowingSchema = z.object({bookId, borrowerId}): parse returns the two
\* keys of the schema and strips every other key of the body.
BorrowingSchemaParse(body) == [bookId |-> body.bookId, borrowerId |-> body.borrowerId]

\* POST /borrowings: BorrowingSchema.parse(req.body); a body whose bookId and
\* borrowerId are not integers throws and is answered 400 by the catch.  The
\* handler goes on with the parsed `data`; req.body keeps what the client
\* sent (bodyDueDate).
CheckoutParse(r, valid, bookId, borrowerId, dueDate) ==
    /\ req[r].pc = "idle"
    /\ req' = [req EXCEPT ![r] =
         IF valid
         THEN LET data == BorrowingSchemaParse([bookId |-> bookId,
                              borrowerId |-> borrowerId, dueDate |-> dueDate])
              IN  [IdleReq EXCEPT !.kind = "checkout", !.pc = "co_findBorrower",
                                  !.bookId = data.bookId,
                                  !.borrowerId = data.borrowerId,
                                  !.bodyDueDate = dueDate]
         ELSE Respond([IdleReq EXCEPT !.kind = "checkout",
                                      !.bodyDueDate = dueDate], 400, ErrInvalid)]
    /\ UNCHANGED <<store, now>>

\* CheckoutFindBorrower without the early return on a missing borrower: the
\* handler goes on to look the book up.
CheckoutFindBorrower_NoReturn(r) ==
    /\ req[r].pc = "co_findBorrower"
    /\ req' = [req EXCEPT ![r] = [@ EXCEPT !.pc = "co_findBook"]]
    /\ UNCHANGED <<store, now>>

\* prisma.borrower.findUnique; if (!borrower) 404
CheckoutFindBorrower(r) ==
    /\ req[r].pc = "co_findBorrower"
    /\ req' = [req EXCEPT ![r] =
         IF req[r].borrowerId \in borrowers
         THEN [@ EXCEPT !.pc = "co_findBook"]
         ELSE Respond(@, 404, ErrBorrowerNotFound)]
    /\ UNCHANGED <<store, now>>

\* CheckoutFindBook writing the decremented quantity as soon as the book is
\* found, before the availability test.
CheckoutFindBook_WriteFirst(r) ==
    /\ req[r].pc = "co_findBook"
    /\ req' = [req EXCEPT ![r] =
         IF req[r].bookId \notin DOMAIN books
         THEN Respond(@, 404, ErrBookNotFound)
         ELSE IF books[req[r].bookId] <= 0
         THEN Respond(@, 400, ErrBookUnavailable)
         ELSE [@ EXCEPT !.pc = "co_txUpdate", !.snapQty = books[req[r].bookId]]]
    /\ books' = IF req[r].bookId \in DOMAIN books
                THEN [books EXCEPT ![req[r].bookId] = @ - 1]
                ELSE books
    /\ UNCHANGED <<totalQuantity, borrowers, borrowings, nextBookId,
                   nextBorrowerId, nextBorrowingId, now>>

\* prisma.book.findUnique; if (!book) 404; if (book.quantity <= 0) 400.
\* The row read here is the handler's local `book` for the rest of the call.
CheckoutFindBook(r) ==
    /\ req[r].pc = "co_findBook"
    /\ req' = [req EXCEPT ![r] =
         IF req[r].bookId \notin DOMAIN books
         THEN Respond(@, 404, ErrBookNotFound)
         ELSE IF books[req[r].bookId] <= 0
         THEN Respond(@, 400, ErrBookUnavailable)
         ELSE [@ EXCEPT !.pc = "co_txUpdate", !.snapQty = books[req[r].bookId]]]
    /\ UNCHANGED <<store, now>>

\* CheckoutTxUpdateBook that reads the book again instead of going on to the
\* insert: the handler retries without end.
CheckoutTxUpdateBook_Retry(r) ==
    /\ req[r].pc = "co_txUpdate"
    /\ req' = [req EXCEPT ![r] =
         IF req[r].bookId \in DOMAIN books
         THEN [@ EXCEPT !.pc = "co_findBook"]
         ELSE Respond(@, 400, ErrStore)]
    /\ UNCHANGED <<store, now>>

\* Inside prisma.$transaction: tx.book.update({where: {id}, data: {quantity:
\* book.quantity - 1}}).  The value written is computed from the row read by
\* CheckoutFindBook.  A missing row makes update throw: the transaction rolls
\* back and the catch answers 400.  The write is not visible to other
\* connections until the transaction commits.  When the update has returned
\* the callback computes const dueDate = addDays(new Date(), 14) from the
\* handler's clock and sends the insert.
CheckoutTxUpdateBook(r) ==
    /\ req[r].pc = "co_txUpdate"
    /\ req' = [req EXCEPT ![r] =
         IF req[r].bookId \in DOMAIN books
         THEN [@ EXCEPT !.pc = "co_txCreate", !.dueDate = addDays(now, LoanDays)]
         ELSE Respond(@, 400, ErrStore)]
    /\ UNCHANGED <<store, now>>

\* The row tx.borrowing.create inserts from {...data, dueDate}: dueDate as
\* the callback computed it, checkoutDate DEFAULT CURRENT_TIMESTAMP filled in
\* when the row is inserted, returnDate NULL.
NewBorrowing(bookId, borrowerId, dueDate) ==
    [bookId |-> bookId, borrowerId |-> borrowerId, checkoutDate |-> now,
     dueDate |-> dueDate, returnDate |-> NoDate]

\* CheckoutBookWrite without the decrement: the quantity is written back as read.
CheckoutBookWrite_NoDecrement(r) == [books EXCEPT ![req[r].bookId] = req[r].snapQty]

\* The JSON of a Borrowing row read with include: {book: true, borrower:
\* true}: the columns of the row and the two related rows (by their ids).
BorrowingJson(id, row) ==
    [id |-> id, bookId |-> row.bookId, borrowerId |-> row.borrowerId,
     checkoutDate |-> row.checkoutDate, dueDate |-> row.dueDate,
     returnDate |-> row.returnDate,
     book |-> [id |-> row.bookId], borrower |-> [id |-> row.borrowerId]]

\* What the committed checkout transaction leaves in the Book table.
CheckoutBookWrite(r) == [books EXCEPT ![req[r].bookId] = req[r].snapQty - 1]

\* tx.borrowing.create, then the callback returns and the transaction commits:
\* both writes become visible together.  The insert fails on its foreign keys
\* when the Book or Borrower row is gone; then the transaction rolls back, the
\* quantity write is discarded and the catch answers 400.
CheckoutTxCreate(r) ==
    /\ req[r].pc = "co_txCreate"
    /\ IF req[r].bookId \in DOMAIN books /\ req[r].borrowerId \in borrowers
       THEN /\ books' = CheckoutBookWrite(r)
            /\ borrowings' = With(borrowings, nextBorrowingId,
                                  NewBorrowing(req[r].bookId, req[r].borrowerId,
                                               req[r].dueDate))
            /\ nextBorrowingId' = nextBorrowingId + 1
            /\ req' = [req EXCEPT ![r] =
                 Respond([@ EXCEPT !.borrowingId = nextBorrowingId,
                                   !.body = BorrowingJson(nextBorrowingId,
                                       NewBorrowing(req[r].bookId, req[r].borrowerId,
                                                    req[r].dueDate))],
                         201, NoError)]
       ELSE /\ req' = [req EXCEPT ![r] = Respond(@, 400, ErrStore)]
            /\ UNCHANGED <<books, borrowings, nextBorrowingId>>
    /\ UNCHANGED <<totalQuantity, borrowers, nextBookId, nextBorrowerId, now>>

\* ------------------------------------------------------------------ return
\* PUT /borrowings/:id/return
ReturnStart(r, id) ==
    /\ req[r].pc = "idle"
    /\ req' = [req EXCEPT ![r] =
         [IdleReq EXCEPT !.kind = "return", !.pc = "rt_find", !.borrowingId = id]]
    /\ UNCHANGED <<store, now>>

\* ReturnFind without the test of borrowing.returnDate: a closed Borrowing
\* goes on into the transaction.
ReturnFind_NoReturnedCheck(r) ==
    /\ req[r].pc = "rt_find"
    /\ req' = [req EXCEPT ![r] =
         IF req[r].borrowingId \notin DOMAIN borrowings
         THEN Respond(@, 404, ErrBorrowingNotFound)
         ELSE [@ EXCEPT !.pc = "rt_txUpdateBook",
                        !.bookId = borrowings[req[r].borrowingId].bookId,
                        !.borrowerId = borrowings[req[r].borrowingId].borrowerId,
                        !.snapQty = books[borrowings[req[r].borrowingId].bookId]]]
    /\ UNCHANGED <<store, now>>

\* prisma.borrowing.findUnique({include: {book: true}}); 404 when missing,
\* 400 when returnDate is set.  borrowing.book.quantity is kept as read.
ReturnFind(r) ==
    /\ req[r].pc = "rt_find"
    /\ req' = [req EXCEPT ![r] =
         IF req[r].borrowingId \notin DOMAIN borrowings
         THEN Respond(@, 404, ErrBorrowingNotFound)
         ELSE IF borrowings[req[r].borrowingId].returnDate # NoDate
         THEN Respond(@, 400, ErrAlreadyReturned)
         ELSE [@ EXCEPT !.pc = "rt_txUpdateBook",
                        !.bookId = borrowings[req[r].borrowingId].bookId,
                        !.borrowerId = borrowings[req[r].borrowingId].borrowerId,
                        !.snapQty = books[borrowings[req[r].borrowingId].bookId]]]
    /\ UNCHANGED <<store, now>>

\* tx.book.update({data: {quantity: borrowing.book.quantity + 1}})
ReturnTxUpdateBook(r) ==
    /\ req[r].pc = "rt_txUpdateBook"
    /\ req' = [req EXCEPT ![r] =
         IF req[r].bookId \in DOMAIN books
         THEN [@ EXCEPT !.pc = "rt_txUpdateBorrowing"]
         ELSE Respond(@, 400, ErrStore)]
    /\ UNCHANGED <<store, now>>

\* ReturnBookWrite that writes the quantity back as it was read.
ReturnBookWrite_NoIncrement(r) == [books EXCEPT ![req[r].bookId] = req[r].snapQty]

\* What the committed return transaction leaves in the two tables.
ReturnBookWrite(r) == [books EXCEPT ![req[r].bookId] = req[r].snapQty + 1]
ReturnBorrowingWrite(r) == [borrowings EXCEPT ![req[r].borrowingId].returnDate = now]

\* tx.borrowing.update({where: {id}, data: {returnDate: new Date()}, include}),
\* then the commit.  The update has no condition on returnDate.  A row deleted
\* in the meantime makes it throw and the transaction roll back.  The updated
\* row is what res.json(result) sends.
ReturnTxUpdateBorrowing(r) ==
    /\ req[r].pc = "rt_txUpdateBorrowing"
    /\ IF req[r].bookId \in DOMAIN books /\ req[r].borrowingId \in DOMAIN borrowings
       THEN /\ books' = ReturnBookWrite(r)
            /\ borrowings' = ReturnBorrowingWrite(r)
            /\ req' = [req EXCEPT ![r] =
                 Respond([@ EXCEPT !.body = BorrowingJson(req[r].borrowingId,
                              ReturnBorrowingWrite(r)[req[r].borrowingId])],
                         200, NoError)]
       ELSE /\ req' = [req EXCEPT ![r] = Respond(@, 400, ErrStore)]
            /\ UNCHANGED <<books, borrowings>>
    /\ UNCHANGED <<totalQuantity, borrowers, nextBookId, nextBorrowerId,
                   nextBorrowingId, now>>

\* ----------------------------------------------------------------- catalog
\* The bodies a client may send to POST /books and PUT /books/:id.  text
\* stands for title, author and isbn: "ok" all three non-empty strings,
\* "taken" the same with the isbn of another book of the catalog, "empty" one
\* of them the empty string, "missing" none of them sent.  quantity is the
\* number sent rounded down, whole tells whether it was an integer.
BookBodies ==
    {b \in [text : {"ok", "taken", "empty", "missing"}, hasQuantity : BOOLEAN,
            quantity : -1..MaxQty, whole : BOOLEAN, hasLocation : BOOLEAN] :
        ~b.hasQuantity => b.quantity = 0 /\ b.whole}

\* BookSchema without the constraints on quantity: any number passes.
BookSchemaOk_AnyQuantity(body) ==
    body.text \in {"ok", "taken"} /\ body.hasQuantity

\* BookSchema: title, author, isbn z.string().min(1), quantity
\* z.number().int().min(0), location z.string().optional().
BookSchemaOk(body) ==
    /\ body.text \in {"ok", "taken"}
    /\ body.hasQuantity /\ body.whole /\ body.quantity >= 0

\* BookSchema.partial(): every field optional, the constraints on the fields
\* that are sent as in BookSchema.
BookSchemaPartialOk(body) ==
    /\ body.text # "empty"
    /\ body.hasQuantity => body.whole /\ body.quantity >= 0

\* POST /books: BookSchema.parse, prisma.book.create; 201, or 400 from the
\* catch, for a body that does not parse and for an isbn that Book_isbn_key
\* refuses.
AddBook(r, body) ==
    /\ req[r].pc = "idle"
    /\ nextBookId <= MaxBooks
    /\ body.text = "taken" => DOMAIN books # {}
    /\ IF BookSchemaOk(body) /\ body.text # "taken"
       THEN /\ books' = With(books, nextBookId, body.quantity)
            /\ totalQuantity' = With(totalQuantity, nextBookId, body.quantity)
            /\ nextBookId' = nextBookId + 1
            /\ req' = [req EXCEPT ![r] =
                 Respond([IdleReq EXCEPT !.kind = "addBook", !.bookId = nextBookId],
                         201, NoError)]
       ELSE /\ req' = [req EXCEPT ![r] =
                 Respond([IdleReq EXCEPT !.kind = "addBook"], 400,
                         IF BookSchemaOk(body) THEN ErrStore ELSE ErrInvalid)]
            /\ UNCHANGED <<books, totalQuantity, nextBookId>>
    /\ UNCHANGED <<borrowers, borrowings, nextBorrowerId, nextBorrowingId, now>>

\* PUT /books/:id: BookSchema.partial().parse, prisma.book.update({where: {id},
\* data}); 200, or 400 from the catch, for a body that does not parse, for an
\* unknown id and for an isbn that Book_isbn_key refuses.
UpdateBook(r, id, body) ==
    /\ req[r].pc = "idle"
    /\ body.text = "taken" => DOMAIN books \ {id} # {}
    /\ IF BookSchemaPartialOk(body) /\ id \in DOMAIN books /\ body.text # "taken"
       THEN /\ books' = IF body.hasQuantity
                        THEN [books EXCEPT ![id] = body.quantity] ELSE books
            /\ totalQuantity' = IF body.hasQuantity
                                THEN [totalQuantity EXCEPT ![id] = body.quantity]
                                ELSE totalQuantity
            /\ req' = [req EXCEPT ![r] =
                 Respond([IdleReq EXCEPT !.kind = "updateBook", !.bookId = id],
                         200, NoError)]
       ELSE /\ req' = [req EXCEPT ![r] =
                 Respond([IdleReq EXCEPT !.kind = "updateBook", !.bookId = id], 400,
                         IF BookSchemaPartialOk(body) THEN ErrStore ELSE ErrInvalid)]
            /\ UNCHANGED <<books, totalQuantity>>
    /\ UNCHANGED <<borrowers, borrowings, nextBookId, nextBorrowerId,
                   nextBorrowingId, now>>

\* DELETE /books/:id: prisma.book.delete({where: {id}}); 204, or 404 from the
\* catch.  Borrowing_bookId_fkey is ON DELETE CASCADE: the book's Borrowing
\* rows go with it.
DeleteBook(r, id) ==
    /\ req[r].pc = "idle"
    /\ IF id \in DOMAIN books
       THEN /\ books' = Without(books, {id})
            /\ totalQuantity' = Without(totalQuantity, {id})
            /\ borrowings' = Without(borrowings, BorrowingsOfBook(id))
            /\ req' = [req EXCEPT ![r] =
                 Respond([IdleReq EXCEPT !.kind = "deleteBook", !.bookId = id],
                         204, NoError)]
       ELSE /\ req' = [req EXCEPT ![r] =
                 Respond([IdleReq EXCEPT !.kind = "deleteBook", !.bookId = id],
                         404, ErrBookNotFound)]
            /\ UNCHANGED <<books, totalQuantity, borrowings>>
    /\ UNCHANGED <<borrowers, nextBookId, nextBorrowerId, nextBorrowingId, now>>

\* --------------------------------------------------------------- borrowers
\* POST /borrowers: BorrowerSchema.parse, prisma.borrower.create
RegisterBorrower(r, valid) ==
    /\ req[r].pc = "idle"
    /\ nextBorrowerId <= MaxBorrowers
    /\ IF valid
       THEN /\ borrowers' = borrowers \cup {nextBorrowerId}
            /\ nextBorrowerId' = nextBorrowerId + 1
            /\ req' = [req EXCEPT ![r] =
                 Respond([IdleReq EXCEPT !.kind = "registerBorrower",
                                         !.borrowerId = nextBorrowerId], 201, NoError)]
       ELSE /\ req' = [req EXCEPT ![r] =
                 Respond([IdleReq EXCEPT !.kind = "registerBorrower"], 400, ErrInvalid)]
            /\ UNCHANGED <<borrowers, nextBorrowerId>>
    /\ UNCHANGED <<books, totalQuantity, borrowings, nextBookId, nextBorrowingId, now>>

\* DeleteBorrower that puts the copies of the deleted open rows back.
DeleteBorrower_Restock(r, id) ==
    /\ req[r].pc = "idle"
    /\ IF id \in borrowers
       THEN /\ borrowers' = borrowers \ {id}
            /\ borrowings' = Without(borrowings, BorrowingsOfBorrower(id))
            /\ books' = [k \in DOMAIN books |->
                 books[k] + Cardinality(OpenOfBook(k) \cap OpenOfBorrower(id))]
            /\ req' = [req EXCEPT ![r] =
                 Respond([IdleReq EXCEPT !.kind = "deleteBorrower", !.borrowerId = id],
                         204, NoError)]
       ELSE /\ req' = [req EXCEPT ![r] =
                 Respond([IdleReq EXCEPT !.kind = "deleteBorrower", !.borrowerId = id],
                         404, ErrBorrowerNotFound)]
            /\ UNCHANGED <<borrowers, borrowings, books>>
    /\ UNCHANGED <<totalQuantity, nextBookId, nextBorrowerId, nextBorrowingId, now>>

\* DELETE /borrowers/:id: prisma.borrower.delete({where: {id}}); 204, or 404
\* from the catch.  Borrowing_borrowerId_fkey is ON DELETE CASCADE.
DeleteBorrower(r, id) ==
    /\ req[r].pc = "idle"
    /\ IF id \in borrowers
       THEN /\ borrowers' = borrowers \ {id}
            /\ borrowings' = Without(borrowings, BorrowingsOfBorrower(id))
            /\ req' = [req EXCEPT ![r] =
                 Respond([IdleReq EXCEPT !.kind = "deleteBorrower", !.borrowerId = id],
                         204, NoError)]
       ELSE /\ req' = [req EXCEPT ![r] =
                 Respond([IdleReq EXCEPT !.kind = "deleteBorrower", !.borrowerId = id],
                         404, ErrBorrowerNotFound)]
            /\ UNCHANGED <<borrowers, borrowings>>
    /\ UNCHANGED <<books, totalQuantity, nextBookId, nextBorrowerId,
                   nextBorrowingId, now>>

\* ------------------------------------------------------------- environment
\* The response has been sent and the handler has returned: the slot serves
\* the next request.
Finish(r) ==
    /\ req[r].pc = "done"
    /\ req' = [req EXCEPT ![r] = IdleReq]
    /\ UNCHANGED <<store, now>>

\* Time passes.
Tick ==
    /\ now < MaxTime
    /\ now' = now + 1
    /\ UNCHANGED <<store, req>>

\* Checkouts that may still insert a Borrowing row
PendingCheckouts == {r \in Reqs : req[r].kind = "checkout" /\ req[r].pc # "done"}

\* A checkout is admitted while the ids it may consume stay within BorrowingIds
CheckoutRequest(r) ==
    /\ nextBorrowingId + Cardinality(PendingCheckouts) <= MaxBorrowings
    /\ \E valid \in BOOLEAN, bookId \in NamedBookIds,
          borrowerId \in NamedBorrowerIds, dueDate \in NamedDueDates :
         CheckoutParse(r, valid, bookId, borrowerId, dueDate)

Checkout(r) ==
    \/ CheckoutRequest(r)
    \/ CheckoutFindBorrower(r)
    \/ CheckoutFindBook(r)
    \/ CheckoutTxUpdateBook(r)
    \/ CheckoutTxCreate(r)

Return(r) ==
    \/ \E id \in BorrowingIds : ReturnStart(r, id)
    \/ ReturnFind(r)
    \/ ReturnTxUpdateBook(r)
    \/ ReturnTxUpdateBorrowing(r)

Catalog(r) ==
    \/ \E body \in BookBodies : AddBook(r, body)
    \/ \E id \in BookIds, body \in BookBodies : UpdateBook(r, id, body)
    \/ \E id \in BookIds : DeleteBook(r, id)

Borrowers(r) ==
    \/ \E valid \in BOOLEAN : RegisterBorrower(r, valid)
    \/ \E id \in BorrowerIds : DeleteBorrower(r, id)

Next ==
    \/ \E r \in Reqs : Checkout(r) /\ UNCHANGED front
    \/ \E r \in Reqs : Return(r) /\ UNCHANGED front
    \/ \E r \in Reqs : Catalog(r) /\ UNCHANGED front
    \/ \E r \in Reqs : Borrowers(r) /\ UNCHANGED front
    \/ \E r \in Reqs : Finish(r) /\ UNCHANGED front
    \/ Tick /\ UNCHANGED front

Spec == Init /\ [][Next]_vars

\* ------------------------------------------------- the engine on its own
\* A catalog stocked by earlier addBook / registerBorrower requests, nothing
\* lent yet; from here only checkout and return requests arrive.
StockedCatalog ==
    /\ books \in [BookIds -> 0..MaxQty]
    /\ totalQuantity = books
    /\ borrowers = BorrowerIds
    /\ borrowings = << >>
    /\ nextBookId = MaxBooks + 1
    /\ nextBorrowerId = MaxBorrowers + 1
    /\ nextBorrowingId = 1
    /\ now = 0
    /\ req = [r \in Reqs |-> IdleReq]

InitEngine == StockedCatalog /\ InitFront

NextEngine ==
    \/ \E r \in Reqs : Checkout(r) /\ UNCHANGED front
    \/ \E r \in Reqs : Return(r) /\ UNCHANGED front
    \/ \E r \in Reqs : Finish(r) /\ UNCHANGED front
    \/ Tick /\ UNCHANGED front

SpecEngine == InitEngine /\ [][NextEngine]_vars

\* ------------------------------------------------ one request at a time
\* The engine serving its requests one after the other: a request is taken
\* only when no other is under way, by the first slot.
Serial(r) == \A o \in Reqs \ {r} : req[o].pc = "idle" /\ r < o

NextSeqEngine ==
    \/ \E r \in Reqs : Serial(r) /\ Checkout(r) /\ UNCHANGED front
    \/ \E r \in Reqs : Serial(r) /\ Return(r) /\ UNCHANGED front
    \/ \E r \in Reqs : Serial(r) /\ Finish(r) /\ UNCHANGED front
    \/ Tick /\ UNCHANGED front

SpecSeqEngine == InitEngine /\ [][NextSeqEngine]_vars

\* ------------------------------------------ the engine, store calls answer
\* A step of a handler that is under way: the store call it awaits returns or
\* fails and the handler runs on to its next await or to its response.
HandlerStep(r) ==
    \/ CheckoutFindBorrower(r)
    \/ CheckoutFindBook(r)
    \/ CheckoutTxUpdateBook(r)
    \/ CheckoutTxCreate(r)
    \/ ReturnFind(r)
    \/ ReturnTxUpdateBook(r)
    \/ ReturnTxUpdateBorrowing(r)

\* Every store call a handler awaits is answered in the end; when requests
\* arrive and when a served slot is taken again is up to the clients.
StoreAnswers == \A r \in Reqs : WF_vars(HandlerStep(r) /\ UNCHANGED front)

\* The engine serving one request at a time within one instant of the clock
NextInstantEngine ==
    \/ \E r \in Reqs : Serial(r) /\ Checkout(r) /\ UNCHANGED front
    \/ \E r \in Reqs : Serial(r) /\ Return(r) /\ UNCHANGED front
    \/ \E r \in Reqs : Serial(r) /\ Finish(r) /\ UNCHANGED front

SpecFairEngine == InitEngine /\ [][NextInstantEngine]_vars /\ StoreAnswers

\* ------------------------------------------------------------ the read side
\* Math.floor((b.getTime() - a.getTime()) / (1000 * 60 * 60 * 24))
DaysBetween(a, b) == (b - a) \div DayTicks

\* Every arrangement of the ids in S as a list
Arrangements(S) ==
    {f \in [1..Cardinality(S) -> S] :
        \A i, j \in 1..Cardinality(S) : i # j => f[i] # f[j]}

\* ByDueDateAsc without the orderBy: the rows in any order.
ByDueDateAsc_Unordered(S) == Arrangements(S)

\* orderBy: {dueDate: "asc"} and orderBy: {checkoutDate: "desc"}: the rows in
\* the order of the key; rows with equal keys come in any order.
ByDueDateAsc(S) ==
    {f \in Arrangements(S) : \A i, j \in DOMAIN f :
        i < j => borrowings[f[i]].dueDate <= borrowings[f[j]].dueDate}
ByCheckoutDateDesc(S) ==
    {f \in Arrangements(S) : \A i, j \in DOMAIN f :
        i < j => borrowings[f[i]].checkoutDate >= borrowings[f[j]].checkoutDate}

\* The rows of the list f as the JSON the handlers send
ListJson(f) == [i \in DOMAIN f |-> BorrowingJson(f[i], borrowings[f[i]])]

\* The values of the status query parameter a client may send ("" for none)
StatusQueries == {"", "active", "returned", "overdue"}

\* getAllBorrowings: the where clause built from req.query.status
whereCondition(status, row) ==
    IF status = "active" THEN row.returnDate = NoDate
    ELSE IF status = "returned" THEN row.returnDate # NoDate
    ELSE TRUE

\* GET /borrowings?status=
GetAllStart(r, status) ==
    /\ req[r].pc = "idle"
    /\ req' = [req EXCEPT ![r] =
         [IdleReq EXCEPT !.kind = "getAllBorrowings", !.pc = "ga_find",
                         !.query = status]]
    /\ UNCHANGED <<store, now>>

\* prisma.borrowing.findMany({where: whereCondition, orderBy: {checkoutDate:
\* "desc"}}); res.json(borrowings)
GetAllFind(r) ==
    /\ req[r].pc = "ga_find"
    /\ \E f \in ByCheckoutDateDesc({b \in DOMAIN borrowings :
                    whereCondition(req[r].query, borrowings[b])}) :
         req' = [req EXCEPT ![r] =
                   Respond([@ EXCEPT !.body = [items |-> ListJson(f)]], 200, NoError)]
    /\ UNCHANGED <<store, now>>

\* GET /borrowings/overdue: const now = new Date()
GetOverdueStart(r) ==
    /\ req[r].pc = "idle"
    /\ req' = [req EXCEPT ![r] =
         [IdleReq EXCEPT !.kind = "getOverdueBooks", !.pc = "go_find",
                         !.clock = now]]
    /\ UNCHANGED <<store, now>>

\* GetOverdueWhere without the dueDate condition: every open row is listed.
GetOverdueWhere_AllOpen(t, row) == row.returnDate = NoDate

\* where: {dueDate: {lt: now}, returnDate: null}
GetOverdueWhere(t, row) == row.dueDate < t /\ row.returnDate = NoDate

\* findMany(where, orderBy: {dueDate: "asc"}), then each item with daysOverdue
\* computed from the `now` read at the start; res.json(overdueWithDays)
GetOverdueFind(r) ==
    /\ req[r].pc = "go_find"
    /\ \E f \in ByDueDateAsc({b \in DOMAIN borrowings :
                    GetOverdueWhere(req[r].clock, borrowings[b])}) :
         req' = [req EXCEPT ![r] =
                   Respond([@ EXCEPT !.body = [items |->
                       [i \in DOMAIN f |->
                           [daysOverdue |-> DaysBetween(borrowings[f[i]].dueDate,
                                                        req[r].clock)]
                           @@ BorrowingJson(f[i], borrowings[f[i]])]]],
                     200, NoError)]
    /\ UNCHANGED <<store, now>>

\* GET /borrowers/:id/books with a numeric id
GetBorrowerBooksStart(r, id) ==
    /\ req[r].pc = "idle"
    /\ req' = [req EXCEPT ![r] =
         [IdleReq EXCEPT !.kind = "getBorrowerBooks", !.pc = "gb_borrower",
                         !.borrowerId = id]]
    /\ UNCHANGED <<store, now>>

\* prisma.borrower.findUnique; if (!borrower) return 404
GetBorrowerBooksFindBorrower(r) ==
    /\ req[r].pc = "gb_borrower"
    /\ req' = [req EXCEPT ![r] =
         IF req[r].borrowerId \in borrowers
         THEN [@ EXCEPT !.pc = "gb_find"]
         ELSE Respond(@, 404, ErrBorrowerNotFound)]
    /\ UNCHANGED <<store, now>>

\* GetBorrowerBooksFind that also stamps the listed rows as returned.
GetBorrowerBooksFind_Stamp(r) ==
    /\ req[r].pc = "gb_find"
    /\ \E f \in ByCheckoutDateDesc(OpenOfBorrower(req[r].borrowerId)) :
         req' = [req EXCEPT ![r] =
                   Respond([@ EXCEPT !.body = [items |-> ListJson(f)]], 200, NoError)]
    /\ borrowings' = [b \in DOMAIN borrowings |->
         IF b \in OpenOfBorrower(req[r].borrowerId)
         THEN [borrowings[b] EXCEPT !.returnDate = now] ELSE borrowings[b]]
    /\ UNCHANGED <<books, totalQuantity, borrowers, nextBookId, nextBorrowerId,
                   nextBorrowingId, now>>

\* findMany({where: {borrowerId, returnDate: null}, orderBy: {checkoutDate:
\* "desc"}}); res.json(borrowings)
GetBorrowerBooksFind(r) ==
    /\ req[r].pc = "gb_find"
    /\ \E f \in ByCheckoutDateDesc(OpenOfBorrower(req[r].borrowerId)) :
         req' = [req EXCEPT ![r] =
                   Respond([@ EXCEPT !.body = [items |-> ListJson(f)]], 200, NoError)]
    /\ UNCHANGED <<store, now>>

\* ------------------------------------------------------ reports and exports
ErrRange == "From date must be before to date"

\* The handlers that take a date range: /reports/borrowings and the two
\* /exports/borrowings
RangeKinds == {"getBorrowingReport", "exportBorrowingsCSV", "exportBorrowingsXLSX"}

\* The from / to dates a client may name: the checkout dates of the earliest
\* and of the latest recent row of the ledger
RangeDates == {addDays(-DayTicks, -LoanDays), addDays(MaxTime + 1, -LoanDays)}

\* DateRangeSchema.parse(req.query) (400 from the catch when a date does not
\* parse); if (isAfter(fromDate, toDate)) 400
RangeStart(r, kind, valid, from, to) ==
    /\ req[r].pc = "idle"
    /\ req' = [req EXCEPT ![r] =
         IF ~valid THEN Respond([IdleReq EXCEPT !.kind = kind], 400, ErrInvalid)
         ELSE IF from > to
         THEN Respond([IdleReq EXCEPT !.kind = kind, !.from = from, !.to = to],
                      400, ErrRange)
         ELSE [IdleReq EXCEPT !.kind = kind, !.pc = "rg_find",
                              !.from = from, !.to = to]]
    /\ UNCHANGED <<store, now>>

\* The ids in S in ascending order (findMany without orderBy)
RECURSIVE ById(_)
ById(S) ==
    IF S = {} THEN << >>
    ELSE LET m == CHOOSE x \in S : \A y \in S : x <= y
         IN  <<m>> \o ById(S \ {m})

\* prisma.borrowing.findMany({where: {checkoutDate: {gte: fromDate, lte:
\* toDate}}, include}): the handler's local `borrowings`
RangeFind(r) ==
    /\ req[r].pc = "rg_find"
    /\ req' = [req EXCEPT ![r] =
         [@ EXCEPT !.rows = ListJson(ById({b \in DOMAIN borrowings :
                                /\ borrowings[b].checkoutDate >= req[r].from
                                /\ borrowings[b].checkoutDate <= req[r].to})),
                   !.body = [items |-> << >>],
                   !.pc = IF req[r].kind = "getBorrowingReport"
                          THEN "rp_active" ELSE "ex_rows"]]
    /\ UNCHANGED <<store, now>>

\* The three filters of the summaries; t is what new Date() returns when the
\* callback runs.
IsReturned(b) == b.returnDate # NoDate
IsActive(b, t) == b.returnDate = NoDate /\ b.dueDate >= t
IsOverdue(b, t) == b.returnDate = NoDate /\ b.dueDate < t

\* borrowings.filter(...).length for each of the three
CountReturned(rows) == Cardinality({i \in DOMAIN rows : IsReturned(rows[i])})
CountActive(rows, t) == Cardinality({i \in DOMAIN rows : IsActive(rows[i], t)})
CountOverdue(rows, t) == Cardinality({i \in DOMAIN rows : IsOverdue(rows[i], t)})

\* getBorrowingReport: total, returned and active are computed first; the
\* active filter calls new Date() for the rows it tests (one value per pass
\* of a filter here).
ReportCountActive(r) ==
    /\ req[r].pc = "rp_active"
    /\ req' = [req EXCEPT ![r] =
         [@ EXCEPT !.pc = "rp_overdue",
                   !.body = [total |-> Len(req[r].rows),
                             returned |-> CountReturned(req[r].rows),
                             active |-> CountActive(req[r].rows, now)]]]
    /\ UNCHANGED <<store, now>>

\* then the overdue filter, with its own new Date()
ReportCountOverdue(r) ==
    /\ req[r].pc = "rp_overdue"
    /\ req' = [req EXCEPT ![r] =
         [@ EXCEPT !.pc = "rp_group",
                   !.body = [overdue |-> CountOverdue(req[r].rows, now)]
                            @@ req[r].body]]
    /\ UNCHANGED <<store, now>>

\* The books / borrowers with a Borrowing checked out in the range, as the two
\* groupBy queries find them in the store (take: 5)
GroupCount(field, from, to) ==
    LET n == Cardinality({borrowings[b][field] : b \in {x \in DOMAIN borrowings :
                 /\ borrowings[x].checkoutDate >= from
                 /\ borrowings[x].checkoutDate <= to}})
    IN  IF n > 5 THEN 5 ELSE n

\* prisma.borrowing.groupBy (by bookId, by borrowerId); res.json({summary,
\* analytics})
ReportGroup(r) ==
    /\ req[r].pc = "rp_group"
    /\ req' = [req EXCEPT ![r] =
         Respond([@ EXCEPT !.body =
             [mostBorrowedBooksCount |->
                  GroupCount("bookId", req[r].from, req[r].to),
              topBorrowersCount |->
                  GroupCount("borrowerId", req[r].from, req[r].to)]
             @@ req[r].body], 200, NoError)]
    /\ UNCHANGED <<store, now>>

\* RowStatus with the due instant itself counted as overdue
RowStatus_DueInclusive(b, t) ==
    IF b.returnDate # NoDate THEN "Returned"
    ELSE IF b.dueDate <= t THEN "Overdue"
    ELSE "Active"

\* borrowing.returnDate ? "Returned" : borrowing.dueDate < t ? "Overdue" :
\* "Active", t being new Date() in the range exports and the `now` read at the
\* start in the last-month exports
RowStatus(b, t) ==
    IF b.returnDate # NoDate THEN "Returned"
    ELSE IF b.dueDate < t THEN "Overdue"
    ELSE "Active"

\* exportBorrowingsCSV / XLSX: the next row of the sheet; each row's status is
\* derived with a new Date() of its own.
ExportRow(r) ==
    /\ req[r].pc = "ex_rows"
    /\ Len(req[r].body.items) < Len(req[r].rows)
    /\ LET b == req[r].rows[Len(req[r].body.items) + 1]
       IN  req' = [req EXCEPT ![r].body.items =
                     Append(@, [status |-> RowStatus(b, now)] @@ b)]
    /\ UNCHANGED <<store, now>>

\* All rows written: the CSV is sent; the XLSX goes on with its summary
\* (total and returned, then the overdue filter).
ExportRowsDone(r) ==
    /\ req[r].pc = "ex_rows"
    /\ Len(req[r].body.items) = Len(req[r].rows)
    /\ req' = [req EXCEPT ![r] =
         IF req[r].kind = "exportBorrowingsCSV"
         THEN Respond(@, 200, NoError)
         ELSE [@ EXCEPT !.pc = "ex_active",
                        !.body = [total |-> Len(req[r].rows),
                                  returned |-> CountReturned(req[r].rows),
                                  overdue |-> CountOverdue(req[r].rows, now)]
                                 @@ req[r].body]]
    /\ UNCHANGED <<store, now>>

\* exportBorrowingsXLSX: the active filter, then workbook.xlsx.write(res)
ExportCountActive(r) ==
    /\ req[r].pc = "ex_active"
    /\ req' = [req EXCEPT ![r] =
         Respond([@ EXCEPT !.body = [active |-> CountActive(req[r].rows, now)]
                                    @@ req[r].body], 200, NoError)]
    /\ UNCHANGED <<store, now>>

\* The four last-month exports
OverdueKinds == {"exportOverdueLastMonthCSV", "exportOverdueLastMonthXLSX"}
AllKinds == {"exportAllBorrowingsLastMonthCSV", "exportAllBorrowingsLastMonthXLSX"}

\* const now = new Date(); const lastMonth = subMonths(now, 1)
LastMonthStart(r, kind) ==
    /\ req[r].pc = "idle"
    /\ req' = [req EXCEPT ![r] =
         [IdleReq EXCEPT !.kind = kind, !.pc = "lm_find", !.clock = now]]
    /\ UNCHANGED <<store, now>>

\* where: {checkoutDate: {gte: lastMonth, lte: now}}, for the overdue exports
\* also returnDate: null and dueDate: {lt: now}
LastMonthWhere(kind, lastMonth, t, row) ==
    /\ row.checkoutDate >= lastMonth
    /\ row.checkoutDate <= t
    /\ kind \in OverdueKinds => (row.returnDate = NoDate /\ row.dueDate < t)

\* The row of an overdue export: daysOverdue and the fixed status "Overdue"
OverdueExportRow(b, t) ==
    [daysOverdue |-> DaysBetween(b.dueDate, t), status |-> "Overdue"] @@ b

\* The row of an all-borrowings export: status, daysFromCheckout and the
\* daysOverdueOrReturned column: "Returned after n days" for a returned row,
\* the days overdue for an overdue one, "N/A" otherwise.  The CSV writes
\* daysOverdue || "N/A", so 0 days overdue is written "N/A" too.
AllExportRow(kind, b, t) ==
    [status |-> RowStatus(b, t),
     daysFromCheckout |-> DaysBetween(b.checkoutDate, t),
     daysOverdueOrReturned |->
        IF b.returnDate # NoDate
        THEN [text |-> "Returned after", days |-> DaysBetween(b.checkoutDate,
                                                              b.returnDate)]
        ELSE IF b.dueDate < t /\ ~(/\ kind = "exportAllBorrowingsLastMonthCSV"
                                   /\ DaysBetween(b.dueDate, t) = 0)
        THEN [text |-> "days overdue", days |-> DaysBetween(b.dueDate, t)]
        ELSE [text |-> "N/A", days |-> 0]] @@ b

\* findMany over the last month (one calendar month: 28 to 31 days), ordered
\* by dueDate asc (overdue exports) or checkoutDate desc (all borrowings); the
\* rows, and for the all-borrowings XLSX the summary counts, all computed
\* from the `now` read at the start; then the file is sent.
LastMonthFind(r) ==
    /\ req[r].pc = "lm_find"
    /\ \E monthDays \in 28..31 :
         LET t == req[r].clock
             found == {b \in DOMAIN borrowings :
                          LastMonthWhere(req[r].kind, addDays(t, -monthDays), t,
                                         borrowings[b])}
         IN  \E f \in IF req[r].kind \in OverdueKinds
                      THEN ByDueDateAsc(found) ELSE ByCheckoutDateDesc(found) :
               req' = [req EXCEPT ![r] =
                 Respond([@ EXCEPT
                    !.rows = ListJson(f),
                    !.body = [items |-> [i \in DOMAIN f |->
                                 IF req[r].kind \in OverdueKinds
                                 THEN OverdueExportRow(ListJson(f)[i], t)
                                 ELSE AllExportRow(req[r].kind, ListJson(f)[i], t)],
                              total |-> Len(ListJson(f)),
                              returned |-> CountReturned(ListJson(f)),
                              overdue |-> CountOverdue(ListJson(f), t),
                              active |-> CountActive(ListJson(f), t)]],
                   200, NoError)]
    /\ UNCHANGED <<store, now>>

\* A ledger in use when the clock starts: rows checked out a loan period ago,
\* falling due around now, and rows due two months back; some returned at the
\* start of the clock, the others open.
LedgerDueDates == {addDays(0, -62)} \cup ((-DayTicks)..(MaxTime + 1))
LedgerRow(id, due, ret) ==
    [bookId |-> ((id - 1) % MaxBooks) + 1,
     borrowerId |-> ((id - 1) % MaxBorrowers) + 1,
     checkoutDate |-> addDays(due, -LoanDays), dueDate |-> due, returnDate |-> ret]

\* The tables behind such a ledger: ids follow the order of checkout, every
\* book was stocked with the copies its rows took, open rows hold one each.
InitLedger ==
    /\ \E n \in 0..MaxBorrowings :
         /\ borrowings \in [1..n -> {LedgerRow(id, due, ret) :
                id \in BorrowingIds, due \in LedgerDueDates, ret \in {NoDate, 0}}]
         /\ nextBorrowingId = n + 1
    /\ \A a \in DOMAIN borrowings :
         /\ borrowings[a].bookId = LedgerRow(a, 0, 0).bookId
         /\ borrowings[a].borrowerId = LedgerRow(a, 0, 0).borrowerId
         /\ \A b \in DOMAIN borrowings :
              a < b => borrowings[a].checkoutDate <= borrowings[b].checkoutDate
    /\ totalQuantity = [k \in BookIds |-> Cardinality(BorrowingsOfBook(k))]
    /\ books = [k \in BookIds |-> totalQuantity[k] - Cardinality(OpenOfBook(k))]
    /\ borrowers = BorrowerIds
    /\ nextBookId = MaxBooks + 1
    /\ nextBorrowerId = MaxBorrowers + 1
    /\ now = 0
    /\ req = [r \in Reqs |-> IdleReq]
    /\ InitFront

Listings(r) ==
    \/ \E status \in StatusQueries : GetAllStart(r, status)
    \/ GetAllFind(r)
    \/ GetOverdueStart(r)
    \/ GetOverdueFind(r)
    \/ \E id \in NamedBorrowerIds : GetBorrowerBooksStart(r, id)
    \/ GetBorrowerBooksFindBorrower(r)
    \/ GetBorrowerBooksFind(r)

Reports(r) ==
    \/ \E kind \in RangeKinds, valid \in BOOLEAN, from \in RangeDates,
          to \in RangeDates : RangeStart(r, kind, valid, from, to)
    \/ RangeFind(r)
    \/ ReportCountActive(r)
    \/ ReportCountOverdue(r)
    \/ ReportGroup(r)

Exports(r) ==
    \/ ExportRow(r)
    \/ ExportRowsDone(r)
    \/ ExportCountActive(r)
    \/ \E kind \in OverdueKinds \cup AllKinds : LastMonthStart(r, kind)
    \/ LastMonthFind(r)

NextLedger ==
    \/ \E r \in Reqs : Serial(r) /\ Listings(r) /\ UNCHANGED front
    \/ \E r \in Reqs : Serial(r) /\ Reports(r) /\ UNCHANGED front
    \/ \E r \in Reqs : Serial(r) /\ Exports(r) /\ UNCHANGED front
    \/ \E r \in Reqs : Serial(r) /\ Finish(r) /\ UNCHANGED front
    \/ Tick /\ UNCHANGED front

SpecLedger == InitLedger /\ [][NextLedger]_vars

\* --------------------------------------- overdue listings beside returns
\* getOverdueBooks requests beside returnBook requests, over a ledger in use
Overdue(r) ==
    \/ GetOverdueStart(r)
    \/ GetOverdueFind(r)

\* One returnBook and one getOverdueBooks request at a time, each free to
\* take its steps between the steps of the other: the first slot serves the
\* returns, the last the listings.
NextOverdue ==
    \/ \E r \in Reqs : r = 1 /\ Return(r) /\ UNCHANGED front
    \/ \E r \in Reqs : r = MaxReqs /\ Overdue(r) /\ UNCHANGED front
    \/ \E r \in Reqs : Finish(r) /\ UNCHANGED front
    \/ Tick /\ UNCHANGED front

SpecOverdue == InitLedger /\ [][NextOverdue]_vars

\* ------------------------------------------------ the desk on its own
\* The catalog and borrower handlers served one at a time, over empty tables
\* or over a ledger in use.
InitDesk == Init \/ InitLedger

NextDesk ==
    \/ \E r \in Reqs : Serial(r) /\ Catalog(r) /\ UNCHANGED front
    \/ \E r \in Reqs : Serial(r) /\ Borrowers(r) /\ UNCHANGED front
    \/ \E r \in Reqs : Serial(r) /\ Finish(r) /\ UNCHANGED front

SpecDesk == InitDesk /\ [][NextDesk]_vars

\* The same desk opening over empty tables, as time passes
NextCatalog == NextDesk \/ (Tick /\ UNCHANGED front)

SpecCatalog == Init /\ [][NextCatalog]_vars

\* ------------------------------------------- in front of the borrowing routes
\* authenticateToken up to its await: no token 401; jwt.verify throws 401;
\* else prisma.user.findUnique({where: {id: decoded.id}}) is awaited.
Authenticate(g) ==
    IF g.token.kind = "none" THEN Refuse(g, 401, ErrAuthRequired)
    ELSE IF g.token.kind = "invalid" THEN Refuse(g, 401, ErrInvalidToken)
    ELSE [g EXCEPT !.pc = "findUser"]

BorrowingRoutes == {"checkout", "return"}

\* POST /borrowings or PUT /borrowings/:id/return arrives with its header
BorrowingArrive(r, route, token) ==
    /\ gate[r].pc = "out"
    /\ req[r].pc = "idle"
    /\ route = "checkout" => nextBorrowingId <= MaxBorrowings
    /\ gate' = [gate EXCEPT ![r] =
         Authenticate([NoGate EXCEPT !.route = route, !.token = token])]
    /\ UNCHANGED <<users, nextUserId, meter, minute, store, now, req>>

\* if (!user || !user.isActive): 401
UserMissing(g) == g.token.id \notin DOMAIN users \/ ~users[g.token.id].isActive

\* req.user.role taken from the role claim of the token.
AuthenticatedRole_FromToken(g) == g.token.role

\* req.user = {id: user.id, ..., role: user.role}: the role of the row read
AuthenticatedRole(g) == users[g.token.id].role

\* requireLibrarian that lets every authenticated user through.
requireLibrarian_Anyone(role) == role \in Roles

\* requireRole("ADMIN", "LIBRARIAN"): roles.includes(req.user.role)
requireLibrarian(role) == role \in {"ADMIN", "LIBRARIAN"}

\* requireRole("ADMIN")
requireAdmin(role) == role = "ADMIN"

\* The limiter's record of the client once it has counted this request: a
\* first request, or one after resetAt, opens a window of BorrowingWindow
\* minutes with one hit; any other adds a hit (the count is kept up to
\* BorrowingMax + 1, which is as much over the limit as any larger count).
LimiterHit ==
    IF limiter.hits = 0 \/ minute >= limiter.resetAt
    THEN [hits |-> 1, resetAt |-> minute + BorrowingWindow]
    ELSE [limiter EXCEPT !.hits = IF @ > BorrowingMax THEN @ ELSE @ + 1]

\* The log with this request added: one more in the current minute (each
\* entry kept up to BorrowingMax + 1).
CountedHit ==
    [counted EXCEPT ![minute] = IF @ > BorrowingMax THEN @ ELSE @ + 1]

\* The user row has been read; one of the middlewares answers: authenticateToken
\* 401, requireLibrarian 403, or borrowingRateLimit, which counts the request,
\* 429.
BorrowingRefuse(r) ==
    /\ gate[r].pc = "findUser"
    /\ gate[r].route \in BorrowingRoutes
    /\ IF UserMissing(gate[r])
       THEN /\ gate' = [gate EXCEPT ![r] = Refuse(@, 401, ErrInactive)]
            /\ UNCHANGED meter
       ELSE IF ~requireLibrarian(AuthenticatedRole(gate[r]))
       THEN /\ gate' = [gate EXCEPT ![r] =
                 Refuse([@ EXCEPT !.role = AuthenticatedRole(gate[r])],
                        403, ErrPermissions)]
            /\ UNCHANGED meter
       ELSE /\ LimiterHit.hits > BorrowingMax
            /\ gate' = [gate EXCEPT ![r] =
                 Refuse([@ EXCEPT !.role = AuthenticatedRole(gate[r])],
                        429, ErrRateLimit)]
            /\ limiter' = LimiterHit
            /\ counted' = CountedHit
    /\ UNCHANGED <<users, nextUserId, minute, store, now, req>>

\* The user row has been read and every middleware calls next(): the handler
\* of the route starts in the same turn.
BorrowingAdmit(r) ==
    /\ gate[r].pc = "findUser"
    /\ gate[r].route \in BorrowingRoutes
    /\ ~UserMissing(gate[r])
    /\ requireLibrarian(AuthenticatedRole(gate[r]))
    /\ LimiterHit.hits <= BorrowingMax
    /\ gate' = [gate EXCEPT ![r] =
         [@ EXCEPT !.pc = "handler", !.role = AuthenticatedRole(gate[r])]]
    /\ limiter' = LimiterHit
    /\ counted' = CountedHit
    /\ UNCHANGED <<users, nextUserId, minute>>

\* The handler has answered and returned
HandlerFinish(r) ==
    /\ gate[r].pc = "handler"
    /\ Finish(r)
    /\ gate' = [gate EXCEPT ![r] = NoGate]
    /\ UNCHANGED <<users, nextUserId, meter, minute>>

\* A response sent by a middleware or by an auth handler has gone out
GateFinish(r) ==
    /\ gate[r].pc = "refused"
    /\ gate' = [gate EXCEPT ![r] = NoGate]
    /\ UNCHANGED <<users, nextUserId, meter, minute, store, now, req>>

\* A minute passes on the limiter's clock.
MinuteTick ==
    /\ minute < MaxMinutes
    /\ minute' = minute + 1
    /\ UNCHANGED <<users, nextUserId, gate, meter, store, now, req>>

\* ------------------------------------------------------- account management
\* The bodies an administrator sends to PUT /auth/users/:id: nothing to
\* change, a role, or the isActive flag
UserUpdateBodies ==
    {[role |-> "", isActive |-> ""]}
        \cup {[role |-> c, isActive |-> ""] : c \in Roles}
        \cup {[role |-> "", isActive |-> a] : a \in {"true", "false"}}

\* PUT /auth/users/:id arrives with its header
UserUpdateArrive(r, token, id, body) ==
    /\ gate[r].pc = "out"
    /\ req[r].pc = "idle"
    /\ gate' = [gate EXCEPT ![r] =
         Authenticate([NoGate EXCEPT !.route = "updateUser", !.token = token,
                                     !.target = id, !.newRole = body.role,
                                     !.newActive = body.isActive])]
    /\ UNCHANGED <<users, nextUserId, meter, minute, store, now, req>>

\* The request as the response leaves it: the parameters are done with
Answered(g) == [g EXCEPT !.target = 0, !.newRole = "", !.newActive = ""]

\* The user row has been read: authenticateToken answers 401, requireAdmin
\* 403, or updateUser finds nothing to update and answers 400.
UserUpdateRefuse(r) ==
    /\ gate[r].pc = "findUser"
    /\ gate[r].route = "updateUser"
    /\ IF UserMissing(gate[r]) THEN TRUE
       ELSE \/ ~requireAdmin(AuthenticatedRole(gate[r]))
            \/ gate[r].newRole = "" /\ gate[r].newActive = ""
    /\ gate' = [gate EXCEPT ![r] =
         IF UserMissing(gate[r]) THEN Refuse(Answered(@), 401, ErrInactive)
         ELSE IF ~requireAdmin(AuthenticatedRole(gate[r]))
         THEN Refuse([Answered(@) EXCEPT !.role = AuthenticatedRole(gate[r])],
                     403, ErrPermissions)
         ELSE Refuse([Answered(@) EXCEPT !.role = AuthenticatedRole(gate[r])],
                     400, ErrNoData)]
    /\ UNCHANGED <<users, nextUserId, meter, minute, store, now, req>>

\* The middlewares call next() and updateUser awaits prisma.user.update
UserUpdateAdmit(r) ==
    /\ gate[r].pc = "findUser"
    /\ gate[r].route = "updateUser"
    /\ ~UserMissing(gate[r])
    /\ requireAdmin(AuthenticatedRole(gate[r]))
    /\ gate[r].newRole # "" \/ gate[r].newActive # ""
    /\ gate' = [gate EXCEPT ![r] =
         [@ EXCEPT !.pc = "uu_update", !.role = AuthenticatedRole(gate[r])]]
    /\ UNCHANGED <<users, nextUserId, meter, minute, store, now, req>>

\* prisma.user.update({where: {id}, data: updateData}): 200, or 500 from the
\* catch when there is no such row
UserUpdateWrite(r) ==
    /\ gate[r].pc = "uu_update"
    /\ IF gate[r].target \in DOMAIN users
       THEN /\ users' = [users EXCEPT ![gate[r].target] =
                 [@ EXCEPT !.role = IF gate[r].newRole # ""
                                    THEN gate[r].newRole ELSE @,
                           !.isActive = IF gate[r].newActive # ""
                                        THEN gate[r].newActive = "true" ELSE @]]
            /\ gate' = [gate EXCEPT ![r] = Refuse(Answered(@), 200, NoError)]
       ELSE /\ gate' = [gate EXCEPT ![r] = Refuse(Answered(@), 500, ErrUpdateFailed)]
            /\ UNCHANGED users
    /\ UNCHANGED <<nextUserId, meter, minute, store, now, req>>

UserUpdate(r) ==
    \/ UserUpdateRefuse(r)
    \/ UserUpdateAdmit(r)
    \/ UserUpdateWrite(r)

\* The row of an account is deleted from the User table (no route of the
\* application does it; authenticateToken provides for it).
RemoveUser(u) ==
    /\ u \in DOMAIN users
    /\ users' = Without(users, {u})
    /\ UNCHANGED <<nextUserId, gate, meter, minute, store, now, req>>

\* The accounts of a library in use: every id taken, each account with some
\* role, active or deactivated.
InitAccounts ==
    /\ users \in {[u \in UserIds |->
                     [username |-> u, email |-> u, role |-> f[u].role,
                      isActive |-> f[u].isActive]] :
                  f \in [UserIds -> [role : Roles, isActive : BOOLEAN]]}
    /\ nextUserId = MaxUsers + 1
    /\ gate = [r \in Reqs |-> NoGate]
    /\ limiter = NoHits
    /\ counted = [m \in 0..MaxMinutes |-> 0]
    /\ minute = 0

InitGate == StockedCatalog /\ InitAccounts

\* The borrowing routes behind their middlewares, one request at a time, as
\* the minutes pass.
NextLimiter ==
    \/ \E r \in Reqs : r = 1 /\ \E route \in BorrowingRoutes, token \in Tokens :
                                  BorrowingArrive(r, route, token)
    \/ \E r \in Reqs : BorrowingRefuse(r)
    \/ \E r \in Reqs : BorrowingAdmit(r) /\ gate[r].route = "checkout"
                                         /\ CheckoutRequest(r)
    \/ \E r \in Reqs : BorrowingAdmit(r) /\ gate[r].route = "return"
                                         /\ \E id \in BorrowingIds : ReturnStart(r, id)
    \/ \E r \in Reqs : HandlerStep(r) /\ UNCHANGED front
    \/ \E r \in Reqs : HandlerFinish(r)
    \/ \E r \in Reqs : GateFinish(r)
    \/ MinuteTick

SpecLimiter == InitGate /\ [][NextLimiter]_vars

\* The borrowing routes behind their middlewares, one request at a time,
\* while an administrator changes accounts and accounts are deleted: the first
\* slot serves the borrowing requests, the last the administrator's.
NextGate ==
    \/ \E r \in Reqs : r = 1 /\ \E route \in BorrowingRoutes, token \in Tokens :
                                  BorrowingArrive(r, route, token)
    \/ \E r \in Reqs : BorrowingRefuse(r)
    \/ \E r \in Reqs : BorrowingAdmit(r) /\ gate[r].route = "checkout"
                                         /\ CheckoutRequest(r)
    \/ \E r \in Reqs : BorrowingAdmit(r) /\ gate[r].route = "return"
                                         /\ \E id \in BorrowingIds : ReturnStart(r, id)
    \/ \E r \in Reqs : HandlerStep(r) /\ UNCHANGED front
    \/ \E r \in Reqs : HandlerFinish(r)
    \/ \E r \in Reqs : GateFinish(r)
    \/ \E r \in Reqs : r = MaxReqs /\ \E token \in Tokens, id \in UserIds,
                                         body \in UserUpdateBodies :
                                         UserUpdateArrive(r, token, id, body)
    \/ \E r \in Reqs : UserUpdate(r)
    \/ \E u \in UserIds : RemoveUser(u)

SpecGate == InitGate /\ [][NextGate]_vars

\* ---------------------------------------------------------------- registering
\* Email addresses as typed: 2 is 1 written with capitals, 3 is another address
Emails == 1..(MaxUsers + 2)

\* body("email").normalizeEmail(): the capitals of an address are lowered
normalizeEmail(e) == IF e % 2 = 0 THEN e - 1 ELSE e

\* Bodies of POST /auth/register: valid says that every validator of
\* validateRegister passes (username pattern, isEmail, password, role)
RegisterBodies ==
    [username : Names, email : Emails, valid : BOOLEAN, role : Roles]

\* POST /auth/register: validateRegister answers 400, or register starts and
\* awaits prisma.user.findFirst({where: {OR: [{email}, {username}]}})
RegisterArrive(r, body) ==
    /\ gate[r].pc = "out"
    /\ req[r].pc = "idle"
    /\ nextUserId <= MaxUsers
    /\ gate' = [gate EXCEPT ![r] =
         IF ~body.valid
         THEN Refuse([NoGate EXCEPT !.route = "register"], 400, ErrValidationFailed)
         ELSE [NoGate EXCEPT !.route = "register", !.pc = "reg_find",
                             !.username = body.username,
                             !.email = normalizeEmail(body.email),
                             !.newRole = body.role]]
    /\ UNCHANGED <<users, nextUserId, meter, minute, store, now, req>>

\* The rows of User with this email or this username
ExistingUsers(g) ==
    {u \in DOMAIN users : users[u].email = g.email \/ users[u].username = g.username}

\* findFirst resolves: a row found is 409; else bcrypt.hash is awaited
RegisterFindFirst(r) ==
    /\ gate[r].pc = "reg_find"
    /\ gate' = [gate EXCEPT ![r] =
         IF ExistingUsers(@) # {} THEN Refuse(@, 409, ErrUserExists)
         ELSE [@ EXCEPT !.pc = "reg_hash"]]
    /\ UNCHANGED <<users, nextUserId, meter, minute, store, now, req>>

\* bcrypt.hash resolves; prisma.user.create is awaited
RegisterHash(r) ==
    /\ gate[r].pc = "reg_hash"
    /\ gate' = [gate EXCEPT ![r].pc = "reg_create"]
    /\ UNCHANGED <<users, nextUserId, meter, minute, store, now, req>>

\* prisma.user.create resolves: the row is inserted and the answer is 201, or
\* a unique index on username or email refuses it, create throws and the
\* catch answers 500
RegisterCreate(r) ==
    /\ gate[r].pc = "reg_create"
    /\ IF ExistingUsers(gate[r]) = {}
       THEN /\ users' = With(users, nextUserId,
                 [username |-> gate[r].username, email |-> gate[r].email,
                  role |-> gate[r].newRole, isActive |-> TRUE])
            /\ nextUserId' = nextUserId + 1
            /\ gate' = [gate EXCEPT ![r] = Refuse([@ EXCEPT !.target = nextUserId], 201, NoError)]
       ELSE /\ gate' = [gate EXCEPT ![r] = Refuse(@, 500, ErrRegistration)]
            /\ UNCHANGED <<users, nextUserId>>
    /\ UNCHANGED <<meter, minute, store, now, req>>

Register(r) ==
    \/ \E body \in RegisterBodies : RegisterArrive(r, body)
    \/ RegisterFindFirst(r)
    \/ RegisterHash(r)
    \/ RegisterCreate(r)

\* The registration route alone, from an empty User table, requests overlapping
NextRegister ==
    \/ \E r \in Reqs : Register(r)
    \/ \E r \in Reqs : GateFinish(r)

SpecRegister == Init /\ [][NextRegister]_vars

\* ================================================================== claims

\* C1: in every reachable state, under any interleaving of checkout and
\* returnBook requests, each Book's stored (available) quantity equals its
\* total quantity minus the number of its open Borrowings.
C1_AvailabilityReconciles ==
    \A k \in DOMAIN books :
        books[k] = totalQuantity[k] - Cardinality(OpenOfBook(k))

\* A checkout that the handler answered 201 and whose Borrowing row is still open
OpenCheckout(r, k) ==
    /\ req[r].kind = "checkout"
    /\ req[r].status = 201
    /\ req[r].bookId = k
    /\ req[r].borrowingId \in DOMAIN borrowings
    /\ borrowings[req[r].borrowingId].returnDate = NoDate

\* C2: checkout requests that run concurrently against a book whose single
\* copy is available (each read quantity 1) do not both succeed: at most one
\* of them is answered 201 and leaves an open Borrowing.
C2_NoDoubleCheckout ==
    \A k \in DOMAIN books : \A r1, r2 \in Reqs :
        (/\ r1 # r2
         /\ totalQuantity[k] = 1
         /\ req[r1].snapQty = 1
         /\ req[r2].snapQty = 1
         /\ OpenCheckout(r1, k))
        => ~OpenCheckout(r2, k)

\* C3: for every Book, in every reachable state, 0 <= availableQuantity <=
\* totalQuantity.
C3_AvailableWithinTotal ==
    \A k \in DOMAIN books : 0 <= books[k] /\ books[k] <= totalQuantity[k]

\* C4: for every Book, in every reachable state, the number of open
\* Borrowings of the book never exceeds the book's total quantity.
C4_OpenWithinTotal ==
    \A k \in DOMAIN books : Cardinality(OpenOfBook(k)) <= totalQuantity[k]

\* Request r's transaction ends in this step (commit, or rollback and 400)
CheckoutTxEnds(r) == req[r].pc = "co_txCreate" /\ req'[r].pc = "done"
ReturnTxEnds(r) == req[r].pc = "rt_txUpdateBorrowing" /\ req'[r].pc = "done"

\* C5: checkout commits both the quantity decrement and the new Borrowing
\* row or neither, and returnBook commits both the returnDate update and the
\* quantity increment or neither: the step that ends a checkout transaction
\* either adds one open Borrowing and lowers the book's quantity by one, or
\* changes neither table; the step that ends a return transaction either
\* closes the open Borrowing and raises the quantity by one, or changes neither.
C5_BothOrNeither ==
    [][\A r \in Reqs :
        /\ CheckoutTxEnds(r) =>
             \/ /\ DOMAIN borrowings' = DOMAIN borrowings \cup {req'[r].borrowingId}
                /\ req'[r].borrowingId \notin DOMAIN borrowings
                /\ borrowings'[req'[r].borrowingId].returnDate = NoDate
                /\ books'[req[r].bookId] = books[req[r].bookId] - 1
             \/ UNCHANGED <<books, borrowings>>
        /\ ReturnTxEnds(r) =>
             \/ /\ borrowings[req[r].borrowingId].returnDate = NoDate
                /\ borrowings'[req[r].borrowingId].returnDate # NoDate
                /\ books'[req[r].bookId] = books[req[r].bookId] + 1
             \/ UNCHANGED <<books, borrowings>>
      ]_vars

\* C6: once created, a Borrowing's bookId, borrowerId, checkoutDate and
\* dueDate never change, and its returnDate, once non-null, is never
\* overwritten or reset.
C6_BorrowingImmutable ==
    [][\A b \in DOMAIN borrowings \cap DOMAIN borrowings' :
        /\ borrowings'[b].bookId = borrowings[b].bookId
        /\ borrowings'[b].borrowerId = borrowings[b].borrowerId
        /\ borrowings'[b].checkoutDate = borrowings[b].checkoutDate
        /\ borrowings'[b].dueDate = borrowings[b].dueDate
        /\ borrowings[b].returnDate # NoDate =>
             borrowings'[b].returnDate = borrowings[b].returnDate
      ]_vars

\* C7: returnBook called twice in a row on the same Borrowing: the first call
\* is answered 200, sets returnDate on the open Borrowing and raises the
\* book's quantity by exactly one; the second call, finding returnDate set, is
\* answered "Book has already been returned" and changes no Book and no
\* Borrowing, so the quantity is incremented once and the returnDate is kept.
C7_DoubleReturn ==
    [][\A r \in Reqs :
        /\ (/\ req[r].pc = "rt_find"
            /\ req'[r].pc # "rt_find"
            /\ req[r].borrowingId \in DOMAIN borrowings
            /\ borrowings[req[r].borrowingId].returnDate # NoDate)
           => /\ req'[r].pc = "done"
              /\ req'[r].status = 400
              /\ req'[r].error = ErrAlreadyReturned
              /\ UNCHANGED <<books, borrowings>>
        /\ (ReturnTxEnds(r) /\ req'[r].status = 200)
           => /\ borrowings[req[r].borrowingId].returnDate = NoDate
              /\ borrowings' = [borrowings EXCEPT
                                  ![req[r].borrowingId].returnDate = now]
              /\ books' = [books EXCEPT ![req[r].bookId] = books[req[r].bookId] + 1]
      ]_vars

\* C7 witness: a second returnBook on a closed Borrowing has been answered
\* "Book has already been returned".
C7_Witness ==
    \E r \in Reqs :
        /\ req[r].kind = "return"
        /\ req[r].pc = "done"
        /\ req[r].error = ErrAlreadyReturned
        /\ req[r].borrowingId \in DOMAIN borrowings
        /\ borrowings[req[r].borrowingId].returnDate # NoDate

\* The answer docs/API.md documents for a delete blocked by open Borrowings
ErrHasActiveBorrowings == "Book has active borrowings and cannot be deleted"

\* Slot r takes a request of the given kind in this step
Handles(r, kind) == req[r].pc = "idle" /\ req'[r].kind = kind

\* C8: deleteBook on a Book with an open Borrowing is rejected with
\* HasActiveBorrowings and leaves the Book and its Borrowings in place; on a
\* Book without open Borrowings the delete succeeds.
C8_DeleteBookGuard ==
    [][\A r \in Reqs :
        (Handles(r, "deleteBook") /\ req'[r].bookId \in DOMAIN books) =>
            IF OpenOfBook(req'[r].bookId) # {}
            THEN /\ req'[r].error = ErrHasActiveBorrowings
                 /\ UNCHANGED <<books, borrowings>>
            ELSE /\ req'[r].status = 204
                 /\ req'[r].bookId \notin DOMAIN books'
      ]_vars

\* C9: deleteBorrower on a Borrower with an open Borrowing is rejected with
\* HasActiveBorrowings, and the Borrower and all of its Borrowings remain in
\* the store.
C9_DeleteBorrowerGuard ==
    [][\A r \in Reqs :
        (/\ Handles(r, "deleteBorrower")
         /\ req'[r].borrowerId \in borrowers
         /\ OpenOfBorrower(req'[r].borrowerId) # {})
        => /\ req'[r].error = ErrHasActiveBorrowings
           /\ UNCHANGED <<borrowers, borrowings>>
      ]_vars

\* C10: checkout reports the first failing precondition in the order borrower
\* exists, book exists, book available: with requests served one at a time,
\* an answered checkout of a well-formed body carries "Borrower not found"
\* (404) whenever the borrower is unknown, whatever the book; "Book not found"
\* (404) when the borrower is known and the book is not; and, when both are
\* known and the checkout did not succeed, "Book not available for checkout"
\* (400) with no copy in stock; a success had a copy to give.
C10_PreconditionOrder ==
    \A r \in Reqs :
        (req[r].kind = "checkout" /\ req[r].pc = "done" /\ req[r].error # ErrInvalid)
        => IF req[r].borrowerId \notin borrowers
           THEN req[r].status = 404 /\ req[r].error = ErrBorrowerNotFound
           ELSE IF req[r].bookId \notin DOMAIN books
           THEN req[r].status = 404 /\ req[r].error = ErrBookNotFound
           ELSE IF req[r].status # 201
           THEN /\ req[r].status = 400
                /\ req[r].error = ErrBookUnavailable
                /\ books[req[r].bookId] <= 0
           ELSE req[r].snapQty > 0 /\ req[r].error = NoError

\* C10 witness: a checkout naming an unknown borrower and an unknown book has
\* been answered "Borrower not found".
C10_Witness ==
    \E r \in Reqs :
        /\ req[r].kind = "checkout"
        /\ req[r].pc = "done"
        /\ req[r].borrowerId \in NamedBorrowerIds \ borrowers
        /\ req[r].bookId \in NamedBookIds \ DOMAIN books
        /\ req[r].error = ErrBorrowerNotFound

\* The answers given when a precondition of checkout or returnBook fails
PreconditionErrors ==
    {ErrBorrowerNotFound, ErrBookNotFound, ErrBookUnavailable,
     ErrBorrowingNotFound, ErrAlreadyReturned}

\* C11: whenever checkout or returnBook fails a precondition (unknown borrower,
\* unknown book, no available copy, unknown borrowing, already returned) the
\* store is unchanged: the step that sends the error changes no table, and so
\* does every step of a checkout or return request other than the one that
\* answers 201 or 200.
C11_FailureLeavesStore ==
    [][\A r \in Reqs :
        /\ (/\ req[r].pc # "done"
            /\ req'[r].pc = "done"
            /\ req'[r].error \in PreconditionErrors)
           => UNCHANGED store
        /\ (/\ req'[r] # req[r]
            /\ req[r].kind \in {"none", "checkout", "return"}
            /\ ~(req[r].pc # "done" /\ req'[r].status \in {200, 201}))
           => UNCHANGED store
      ]_vars

\* C11 witness: a checkout of a book with no copy in stock has been refused,
\* and a return of an unknown Borrowing likewise could be; here the former.
C11_Witness ==
    \E r \in Reqs :
        /\ req[r].kind = "checkout"
        /\ req[r].pc = "done"
        /\ req[r].status = 400
        /\ req[r].error = ErrBookUnavailable
        /\ req[r].bookId \in DOMAIN books
        /\ books[req[r].bookId] = 0

\* C12: a checkout refused for lack of a copy and a returnBook refused because
\* the Borrowing is already returned are answered 409, a status different
\* from the one of malformed input (400), of missing records (404) and of
\* storage / transaction failures.
C12_ConflictIs409 ==
    \A r \in Reqs :
        (req[r].pc = "done" /\ req[r].kind \in {"checkout", "return"}) =>
            /\ req[r].error \in {ErrBookUnavailable, ErrAlreadyReturned}
                 => req[r].status = 409
            /\ req[r].error = ErrInvalid => req[r].status = 400
            /\ req[r].error \in {ErrBorrowerNotFound, ErrBookNotFound,
                                 ErrBorrowingNotFound} => req[r].status = 404
            /\ req[r].error = ErrStore => req[r].status \notin {400, 404, 409}

\* C13: round trip.  A successful checkout of a book with quantity q >= 1
\* lowers the quantity to q - 1 and creates exactly one open Borrowing for the
\* given bookId and borrowerId; a following successful returnBook of that
\* Borrowing raises the quantity by one, back to q, and sets its returnDate;
\* in both steps no other Book and no other Borrowing changes.
C13_RoundTrip ==
    [][\A r \in Reqs :
        /\ (CheckoutTxEnds(r) /\ req'[r].status = 201) =>
             /\ books[req[r].bookId] >= 1
             /\ books' = [books EXCEPT ![req[r].bookId] = books[req[r].bookId] - 1]
             /\ req'[r].borrowingId \notin DOMAIN borrowings
             /\ DOMAIN borrowings' = DOMAIN borrowings \cup {req'[r].borrowingId}
             /\ \A o \in DOMAIN borrowings : borrowings'[o] = borrowings[o]
             /\ borrowings'[req'[r].borrowingId].bookId = req[r].bookId
             /\ borrowings'[req'[r].borrowingId].borrowerId = req[r].borrowerId
             /\ borrowings'[req'[r].borrowingId].returnDate = NoDate
        /\ (ReturnTxEnds(r) /\ req'[r].status = 200) =>
             /\ borrowings[req[r].borrowingId].returnDate = NoDate
             /\ books' = [books EXCEPT ![borrowings[req[r].borrowingId].bookId] =
                                          books[borrowings[req[r].borrowingId].bookId] + 1]
             /\ DOMAIN borrowings' = DOMAIN borrowings
             /\ \A o \in DOMAIN borrowings \ {req[r].borrowingId} :
                    borrowings'[o] = borrowings[o]
             /\ borrowings'[req[r].borrowingId].returnDate # NoDate
             /\ borrowings'[req[r].borrowingId] =
                    [borrowings[req[r].borrowingId] EXCEPT
                        !.returnDate = borrowings'[req[r].borrowingId].returnDate]
      ]_vars

\* C13 witness: a book lent once and returned: its only Borrowing is closed
\* and its quantity is back at the quantity it had before the checkout.
C13_Witness ==
    \E r \in Reqs : \E k \in DOMAIN books :
        /\ req[r].kind = "return"
        /\ req[r].pc = "done"
        /\ req[r].status = 200
        /\ req[r].bookId = k
        /\ BorrowingsOfBook(k) = {req[r].borrowingId}
        /\ borrowings[req[r].borrowingId].returnDate # NoDate
        /\ books[k] = totalQuantity[k]
        /\ books[k] >= 1

\* C14: when checkout is called without a dueDate, the created Borrowing has
\* checkoutDate = now (the time of the insert), dueDate = checkoutDate + 14
\* days and returnDate = null.
C14_DefaultDueDate ==
    [][\A r \in Reqs :
        (/\ CheckoutTxEnds(r)
         /\ req'[r].status = 201
         /\ req[r].bodyDueDate = NoDate)
        => /\ borrowings'[req'[r].borrowingId].checkoutDate = now
           /\ borrowings'[req'[r].borrowingId].dueDate =
                  addDays(borrowings'[req'[r].borrowingId].checkoutDate, 14)
           /\ borrowings'[req'[r].borrowingId].returnDate = NoDate
      ]_vars

\* C15: when checkout is called with an explicit dueDate, the created
\* Borrowing's dueDate equals the supplied value.
C15_ExplicitDueDate ==
    [][\A r \in Reqs :
        (/\ CheckoutTxEnds(r)
         /\ req'[r].status = 201
         /\ req[r].bodyDueDate # NoDate)
        => borrowings'[req'[r].borrowingId].dueDate = req[r].bodyDueDate
      ]_vars

\* C16: a successful returnBook result carries a wasOverdue flag that is true
\* exactly when the recorded returnDate is later than the Borrowing's dueDate.
C16_WasOverdueFlag ==
    \A r \in Reqs :
        (req[r].kind = "return" /\ req[r].pc = "done" /\ req[r].status = 200) =>
            /\ "wasOverdue" \in DOMAIN req[r].body
            /\ req[r].body.wasOverdue = (req[r].body.returnDate > req[r].body.dueDate)

\* The Status Resolver of the specification: returned if returnDate is set,
\* whatever the dueDate; otherwise overdue if dueDate < t; otherwise active.
ResolvedStatus(b, t) ==
    IF b.returnDate # NoDate THEN "returned"
    ELSE IF b.dueDate < t THEN "overdue"
    ELSE "active"

\* The label the exports write for a resolved status
StatusLabel(st) ==
    CASE st = "returned" -> "Returned"
      [] st = "overdue" -> "Overdue"
      [] st = "active" -> "Active"

\* The number of rows the resolver gives status st at time t
ResolvedCount(rows, st, t) ==
    Cardinality({i \in DOMAIN rows : ResolvedStatus(rows[i], t) = st})

\* C17: every read path that derives a Borrowing's status gives the result of
\* the Status Resolver at the time the path reads: the row status of the range
\* CSV / XLSX exports, the returned / active / overdue counts of the report
\* summary and of the XLSX summary, and the row status and counts of the
\* last-month exports (taken at the `now` read when the request started); a
\* Borrowing with dueDate = now is active.
C17_StatusAsResolver ==
    [][\A r \in Reqs :
        /\ (req[r].pc = "ex_rows" /\ req'[r].pc = "ex_rows" /\ req'[r] # req[r]) =>
             LET b == req[r].rows[Len(req[r].body.items) + 1]
                 row == req'[r].body.items[Len(req[r].body.items) + 1]
             IN  row.id = b.id /\ row.status = StatusLabel(ResolvedStatus(b, now))
        /\ (req[r].pc = "rp_active" /\ req'[r].pc = "rp_overdue") =>
             /\ req'[r].body.returned = ResolvedCount(req[r].rows, "returned", now)
             /\ req'[r].body.active = ResolvedCount(req[r].rows, "active", now)
        /\ (req[r].pc = "rp_overdue" /\ req'[r].pc = "rp_group") =>
             req'[r].body.overdue = ResolvedCount(req[r].rows, "overdue", now)
        /\ (req[r].pc = "ex_rows" /\ req'[r].pc = "ex_active") =>
             /\ req'[r].body.returned = ResolvedCount(req[r].rows, "returned", now)
             /\ req'[r].body.overdue = ResolvedCount(req[r].rows, "overdue", now)
        /\ (req[r].pc = "ex_active" /\ req'[r].pc = "done") =>
             req'[r].body.active = ResolvedCount(req[r].rows, "active", now)
        /\ (req[r].pc = "lm_find" /\ req'[r].pc = "done") =>
             /\ \A i \in DOMAIN req'[r].body.items :
                  /\ req'[r].body.items[i].id = req'[r].rows[i].id
                  /\ req'[r].body.items[i].status =
                       StatusLabel(ResolvedStatus(req'[r].rows[i], req[r].clock))
             /\ \A st \in {"returned", "overdue", "active"} :
                  req'[r].body[st] = ResolvedCount(req'[r].rows, st, req[r].clock)
      ]_vars

\* C17 witness: a range CSV export has written "Active" for an open Borrowing
\* that falls due at this very instant, and "Returned" for one returned after
\* its due date.
C17_Witness ==
    \E r \in Reqs :
        /\ req[r].kind = "exportBorrowingsCSV"
        /\ req[r].pc = "done"
        /\ req[r].status = 200
        /\ \E i, j \in DOMAIN req[r].body.items :
             /\ req[r].body.items[i].returnDate = NoDate
             /\ req[r].body.items[i].dueDate = now
             /\ req[r].body.items[i].status = "Active"
             /\ req[r].body.items[j].returnDate > req[r].body.items[j].dueDate
             /\ req[r].body.items[j].status = "Returned"

\* C18: the report's returned, active and overdue counts partition the
\* borrowings in range, returned + active + overdue = total, also when the
\* clock advances while the report is being computed.
C18_CountsPartition ==
    \A r \in Reqs :
        (req[r].kind = "getBorrowingReport" /\ req[r].pc = "done"
            /\ req[r].status = 200)
        => req[r].body.returned + req[r].body.active + req[r].body.overdue
             = req[r].body.total

C20_StatusFilter ==
    [][\A r \in Reqs :
        (/\ req[r].pc = "ga_find"
         /\ req'[r].pc = "done"
         /\ req[r].query \in {"active", "returned", "overdue"})
        => {req'[r].body.items[i].id : i \in DOMAIN req'[r].body.items}
             = {b \in DOMAIN borrowings :
                   ResolvedStatus(borrowings[b], now) = req[r].query}
      ]_vars

\* The handlers of the read side, by the kind a request carries
ReadKinds ==
    {"getBorrowerBooks", "getOverdueBooks", "getAllBorrowings"}
        \cup RangeKinds \cup OverdueKinds \cup AllKinds

\* C21: every step of a read-side request (getBorrowerBooks, getOverdueBooks,
\* getAllBorrowings, the borrowing report and the export queries), from its
\* arrival to its response, with any arguments and whether it answers 200 or
\* an error, leaves every Book, Borrower and Borrowing as it was.
C21_ReadsLeaveStore ==
    [][(\E r \in Reqs :
           /\ req'[r] # req[r]
           /\ req[r].kind \in ReadKinds \/ req'[r].kind \in ReadKinds)
       => store' = store]_vars

\* A borrower's open rows were listed, and a listing of an unknown borrower
\* failed, over a ledger that has open and returned rows.
C21_Witness ==
    /\ \E a, b \in DOMAIN borrowings :
         borrowings[a].returnDate = NoDate /\ borrowings[b].returnDate # NoDate
    /\ \E r \in Reqs :
         /\ req[r].kind = "getBorrowerBooks"
         /\ req[r].pc = "done"
         /\ \/ req[r].status = 200 /\ Len(req[r].body.items) > 0
            \/ req[r].status = 404

\* C28: with checkout and returnBook requests served strictly one at a time
\* and no book updated or deleted, in every reachable state the stored
\* quantity of each Book plus the number of its open Borrowings is the
\* quantity the book started with.
C28_SequentialConservation ==
    \A k \in BookIds :
        /\ k \in DOMAIN books
        /\ books[k] + Cardinality({b \in DOMAIN borrowings :
                                     /\ borrowings[b].bookId = k
                                     /\ borrowings[b].returnDate = NoDate})
             = totalQuantity[k]

\* A book that was lent and returned and is lent again: one closed and one
\* open Borrowing, the second checkout just answered.
C28_Witness ==
    \E r \in Reqs : \E k \in DOMAIN books :
        /\ req[r].kind = "checkout"
        /\ req[r].pc = "done"
        /\ req[r].status = 201
        /\ req[r].bookId = k
        /\ \E a, b \in BorrowingsOfBook(k) :
             /\ borrowings[a].returnDate # NoDate
             /\ borrowings[b].returnDate = NoDate

\* A body with a field BookSchema refuses whether or not the other fields
\* are sent: an empty title, author or isbn, a negative quantity, a quantity
\* that is not an integer.
BadField(body) ==
    \/ body.text = "empty"
    \/ body.hasQuantity /\ (body.quantity < 0 \/ ~body.whole)

C29_DeleteBorrowerCascade ==
    [][\A r \in Reqs :
        (/\ req[r].pc = "idle"
         /\ req'[r].kind = "deleteBorrower"
         /\ req'[r].borrowerId \in borrowers)
        => /\ req'[r].status = 204
           /\ borrowers' = borrowers \ {req'[r].borrowerId}
           /\ DOMAIN borrowings' =
                {b \in DOMAIN borrowings :
                    borrowings[b].borrowerId # req'[r].borrowerId}
           /\ \A b \in DOMAIN borrowings' : borrowings'[b] = borrowings[b]
           /\ books' = books
      ]_vars

\* A Borrower holding an open and a closed Borrowing was deleted: both rows
\* are gone and the book still lacks the copy that was out.
C29_Witness ==
    \E r \in Reqs : \E k \in DOMAIN books :
        /\ req[r].kind = "deleteBorrower"
        /\ req[r].pc = "done"
        /\ req[r].status = 204
        /\ req[r].borrowerId \notin borrowers
        /\ BorrowingsOfBorrower(req[r].borrowerId) = {}
        /\ books[k] >= 1
        /\ totalQuantity[k] > books[k]
        /\ BorrowingsOfBook(k) = {}

C27_OneResponse ==
    /\ \A r \in Reqs :
         (req[r].kind \in {"checkout", "return"} /\ req[r].pc # "done")
            ~> (req[r].pc = "done" /\ req[r].status # 0)
    /\ [][\A r \in Reqs :
            /\ (req[r].pc # "idle" /\
                <<req'[r].status, req'[r].error, req'[r].body>>
                    # <<req[r].status, req[r].error, req[r].body>>) =>
                 \/ req[r].pc # "done" /\ req'[r].pc = "done"
                 \/ req[r].pc = "done" /\ req'[r] = IdleReq
            /\ (req[r].pc = "done" /\ req'[r] # req[r]) => req'[r] = IdleReq
            /\ (req[r].pc \notin {"idle", "done"} /\ req'[r] # req[r]) =>
                 /\ req'[r].kind = req[r].kind
                 /\ req'[r].pc \notin {"idle", req[r].pc}
         ]_vars

\* A checkout was answered 201 after its four store calls and a returnBook
\* of the row was answered 200 after its three.
C27_Witness ==
    \E r \in Reqs :
        /\ req[r].kind = "return"
        /\ req[r].pc = "done"
        /\ req[r].status = 200
        /\ req[r].body.returnDate # NoDate
        /\ req[r].borrowingId \in DOMAIN borrowings

\* The window of the documentation: "Borrowing operations: 10 requests per
\* 15 minutes"
DocumentedWindow == 15

\* The requests the limiter counted in the DocumentedWindow minutes up to and
\* including minute m
RECURSIVE CountedSince(_, _)
CountedSince(m, upTo) ==
    IF m < 0 \/ upTo - m >= DocumentedWindow THEN 0
    ELSE counted[m] + CountedSince(m - 1, upTo)

\* C23: a checkout or return request that reaches the limiter when it has
\* counted BorrowingMax requests of the client within the last 15 minutes is
\* answered 429 and changes nothing in the store, no handler starting for it;
\* one that reaches it when fewer were counted goes on to its handler.
C23_QuarterHourLimit ==
    [][\A r \in Reqs :
        (gate[r].pc = "findUser" /\ gate[r].route \in BorrowingRoutes
            /\ counted' # counted) =>
          /\ CountedSince(minute, minute) >= BorrowingMax =>
               /\ gate'[r].status = 429
               /\ store' = store
               /\ req' = req
          /\ CountedSince(minute, minute) < BorrowingMax =>
               gate'[r].pc = "handler"
      ]_vars

\* C22: a checkout or return handler runs, and Book or Borrowing rows change,
\* only for a request that authenticateToken and requireLibrarian let
\* through: its token verified, and the user row read for it present, active
\* and of role ADMIN or LIBRARIAN.  A checkout or return request without a
\* token or with one that does not verify is answered 401, one whose account
\* has the role USER 403, and what a middleware has answered never reaches a
\* handler: no Book or Borrowing changes.
C22_OnlyLibrarians ==
    [][/\ \A r \in Reqs :
            /\ (req'[r] # req[r] /\ req'[r] # IdleReq) =>
                 /\ gate'[r].pc = "handler"
                 /\ gate'[r].route \in BorrowingRoutes
                 /\ gate'[r].token.kind = "valid"
                 /\ gate'[r].role \in {"ADMIN", "LIBRARIAN"}
            /\ (gate[r].pc = "findUser" /\ gate'[r].pc = "handler") =>
                 /\ gate[r].token.id \in DOMAIN users
                 /\ users[gate[r].token.id].isActive
                 /\ users[gate[r].token.id].role \in {"ADMIN", "LIBRARIAN"}
            /\ (gate[r].pc = "out" /\ gate'[r].route \in BorrowingRoutes
                  /\ gate'[r].token.kind # "valid") =>
                 /\ gate'[r].pc = "refused"
                 /\ gate'[r].status = 401
            /\ (/\ gate[r].pc = "findUser" /\ gate[r].route \in BorrowingRoutes
                /\ gate'[r] # gate[r]
                /\ gate[r].token.id \in DOMAIN users
                /\ users[gate[r].token.id].isActive
                /\ users[gate[r].token.id].role = "USER") =>
                 /\ gate'[r].pc = "refused"
                 /\ gate'[r].status = 403
            /\ (gate[r].pc = "refused" /\ gate'[r] # gate[r]) =>
                 /\ gate'[r] = NoGate
                 /\ req'[r] = req[r]
       /\ <<books, borrowings>>' # <<books, borrowings>> =>
            \E r \in Reqs :
                /\ req'[r] # req[r]
                /\ gate[r].pc = "handler"
                /\ gate[r].token.kind = "valid"
                /\ gate[r].role \in {"ADMIN", "LIBRARIAN"}
      ]_vars

\* A checkout of a librarian went through and left its Borrowing; the account
\* was then given the role USER and its next request, with the same token, was
\* answered 403.
C22_Witness ==
    \E r \in Reqs :
        /\ gate[r].route \in BorrowingRoutes
        /\ gate[r].pc = "refused"
        /\ gate[r].status = 403
        /\ gate[r].token.kind = "valid"
        /\ gate[r].token.role = "LIBRARIAN"
        /\ DOMAIN borrowings # {}
        /\ \A b \in DOMAIN borrowings : borrowings[b].returnDate = NoDate

\* The roles a route lets through
AllowedRoles(route) ==
    IF route = "updateUser" THEN {"ADMIN"} ELSE {"ADMIN", "LIBRARIAN"}

\* C30: what authenticateToken and the role check answer follows the User row
\* as it is when the request is authenticated, whatever role the token names:
\* a verified token of an account whose row is gone or deactivated is answered
\* 401 and nothing changes; otherwise req.user.role is the role of the row,
\* and the request is answered 403 exactly when that role is not among the
\* roles of the route.
C30_CurrentRecordDecides ==
    [][\A r \in Reqs :
        (gate[r].pc = "findUser" /\ gate'[r] # gate[r]) =>
          IF gate[r].token.id \notin DOMAIN users
                \/ ~users[gate[r].token.id].isActive
          THEN /\ gate'[r].pc = "refused"
               /\ gate'[r].status = 401
               /\ store' = store
               /\ req' = req
               /\ users' = users
          ELSE /\ gate'[r].role = users[gate[r].token.id].role
               /\ gate'[r].status # 401
               /\ gate'[r].status = 403
                    <=> users[gate[r].token.id].role \notin AllowedRoles(gate[r].route)
               /\ gate'[r].pc \in {"handler", "uu_update"}
                    => users[gate[r].token.id].role \in AllowedRoles(gate[r].route)
      ]_vars

\* An administrator deactivated an account (200), and a request carrying the
\* token of that account, of a role the route lets through, was answered 401.
C30_Witness ==
    \E r, o \in Reqs :
        /\ gate[r].route \in BorrowingRoutes
        /\ gate[r].pc = "refused"
        /\ gate[r].status = 401
        /\ gate[r].error = ErrInactive
        /\ gate[r].token.role \in {"ADMIN", "LIBRARIAN"}
        /\ gate[r].token.id \in DOMAIN users
        /\ ~users[gate[r].token.id].isActive
        /\ gate[o].route = "updateUser"
        /\ gate[o].status = 200

\* A registration answered by the handler (not by the validators)
RegisterAnswered(r) ==
    /\ gate[r].route = "register"
    /\ gate[r].pc = "refused"
    /\ gate[r].status # 400

\* C24: no two users share a username or an email, and a registration the
\* handler answered either created its user (201) or was refused with 409
\* because the username or the email was taken.
C24_RegisterConflictIs409 ==
    /\ \A u, v \in DOMAIN users :
         u # v => /\ users[u].username # users[v].username
                  /\ users[u].email # users[v].email
    /\ \A r \in Reqs :
         RegisterAnswered(r) =>
            \/ /\ gate[r].status = 201
               /\ gate[r].target \in DOMAIN users
               /\ users[gate[r].target].username = gate[r].username
            \/ /\ gate[r].status = 409
               /\ ExistingUsers(gate[r]) # {}

====
